---- MODULE Spec2Model ----
(***************************************************************************)
(* ctl2mimir: the per-index finite state machine (src/src/fsm/mod.rs), its *)
(* driver `exec`, the status listener `update_notifications` and the       *)
(* index store (src/src/api/indexes.rs, src/src/db/sqlite.rs).             *)
(*                                                                         *)
(* Texts are modelled by their token structure: a decimal number is        *)
(* [kind |-> "number", n |-> 1], a JSON object is a record with            *)
(* kind = "object" and the object's members.  Rust strings built by        *)
(* format! are tuples of their literal part and their arguments.           *)
(* The wall clock `now` never steps backwards.                             *)
(***************************************************************************)
EXTENDS Integers, Sequences, FiniteSets, TLC

VARIABLES
    now,        \* wall clock, seconds (SystemTime::now, STRFTIME('%s','now'))
    store,      \* table `indexes`: sequence of rows, row k has index_id k
    written,    \* per index id: the status values written by update_index_status
    fsm,        \* per index id: the FSM struct (state, events, index_type, data_source, ...)
    pc,         \* per index id: position of the task running exec
    outbox,     \* per index id: the multipart message handed to publish.send
    published,  \* per index id: the messages whose send has completed
    entered,    \* per index id: the states set by FSM::next, in order
    jobs,       \* per index id: the external jobs run by FSM::run, with their outcome
    bound,      \* index id of the FSM whose publish socket is bound to the endpoint, 0 if none
    lpc,        \* per index id: position of the task running update_notifications
    connected,  \* per index id: the listener's subscribe socket is connected to the bound publisher
    inbox,      \* per index id: messages received by the listener's socket, not yet read
    calls,      \* results returned by create_index, in call order
    pre,        \* transition harness: state before FSM::next
    ev,         \* transition harness: the event given to FSM::next
    post,       \* transition harness: state after FSM::next
    applied,    \* transition harness: FSM::next has been called
    json,       \* serde harness: result of serde_json::to_string(&pre), <<>> before the call
    back,       \* serde harness: result of serde_json::from_str on that text, <<>> before the call
    tx,         \* per index id: the UPDATE executed in the listener's open transaction, <<>> if none
    listed,     \* the rows returned by the last get_all_indexes
    versions,   \* the (index_id, status, updated_at) of every UPDATE executed so far
    sub,        \* the notifications stream: its socket's connection and its place in the messages
    yielded     \* the messages the notifications stream has taken, each with the item it yielded

vars == <<now, store, written, fsm, pc, outbox, published, entered, jobs,
          bound, lpc, connected, inbox, calls, pre, ev, post, applied, json, back,
          tx, listed, versions, sub, yielded>>

sysvars == <<store, written, fsm, pc, outbox, published, entered, jobs,
             bound, lpc, connected, inbox, calls>>

harness == <<pre, ev, post, applied, json, back, tx, listed, versions, sub, yielded>>

storevars == <<tx, listed, versions>>

streamvars == <<sub, yielded>>

----------------------------------------------------------------------------
(* Bounds *)

MaxClock == 1

MaxIndexes == 2

\* status messages given to the listeners of the listener harness, in total
MaxWrites == 2

----------------------------------------------------------------------------
(* Inputs *)

DataSources == {"osm", "bano", "cosmogony", "ntfs", "unknown"}

IndexTypes == {"admins", "streets", "poi"}

Regions == {"andorra"}

\* every request create_index may get
AllRequests ==
    {[index_type |-> it, data_source |-> ds, region |-> r] :
        it \in IndexTypes, ds \in DataSources, r \in Regions}

\* the requests made when several indexes are created: a source whose jobs
\* may all succeed and a source with no job
Requests ==
    {[index_type |-> "admins", data_source |-> ds, region |-> r] :
        ds \in {"osm", "unknown"}, r \in Regions}

Topic == "state"

\* file produced by the download job, and by the cosmogony job
Downloads == {<<r, ".download">> : r \in Regions}

Processeds == {<<r, ".cosmogony">> : r \in Regions}

Paths == Downloads \cup Processeds

Times == 0..MaxClock

JobErrors == {"404"}

Details ==
    {<<"Could not download: ", e>> : e \in JobErrors}
    \cup {<<"Dont know how to download ", "unknown">>}

----------------------------------------------------------------------------
(* src/src/fsm/mod.rs: State and Event *)

StateNames ==
    {"NotAvailable", "DownloadingInProgress", "DownloadingError", "Downloaded",
     "ProcessingInProgress", "ProcessingError", "Processed",
     "IndexingInProgress", "IndexingError", "Indexed",
     "ValidationInProgress", "ValidationError", "Available", "Failure"}

NotAvailable == [variant |-> "NotAvailable"]

DownloadingInProgress(t) == [variant |-> "DownloadingInProgress", started_at |-> t]

DownloadingError(m) == [variant |-> "DownloadingError", details |-> m]

Downloaded(p, d) == [variant |-> "Downloaded", file_path |-> p, duration |-> d]

ProcessingInProgress(p, t) ==
    [variant |-> "ProcessingInProgress", file_path |-> p, started_at |-> t]

ProcessingError(m) == [variant |-> "ProcessingError", details |-> m]

Processed(p, d) == [variant |-> "Processed", file_path |-> p, duration |-> d]

IndexingInProgress(p, t) ==
    [variant |-> "IndexingInProgress", file_path |-> p, started_at |-> t]

IndexingError(m) == [variant |-> "IndexingError", details |-> m]

Indexed(d) == [variant |-> "Indexed", duration |-> d]

ValidationInProgress == [variant |-> "ValidationInProgress"]

ValidationError(m) == [variant |-> "ValidationError", details |-> m]

Available == [variant |-> "Available"]

Failure(m) == [variant |-> "Failure", message |-> m]

EvDownload == [variant |-> "Download"]

EvDownloadingError(m) == [variant |-> "DownloadingError", details |-> m]

EvDownloadingComplete(p, d) ==
    [variant |-> "DownloadingComplete", file_path |-> p, duration |-> d]

EvProcess(p) == [variant |-> "Process", file_path |-> p]

EvProcessingError(m) == [variant |-> "ProcessingError", details |-> m]

EvProcessingComplete(p, d) ==
    [variant |-> "ProcessingComplete", file_path |-> p, duration |-> d]

EvIndex(p) == [variant |-> "Index", file_path |-> p]

EvIndexingError(m) == [variant |-> "IndexingError", details |-> m]

EvIndexingComplete(d) == [variant |-> "IndexingComplete", duration |-> d]

EvValidate == [variant |-> "Validate"]

EvValidationError(m) == [variant |-> "ValidationError", details |-> m]

EvValidationComplete == [variant |-> "ValidationComplete"]

EvReset == [variant |-> "Reset"]

\* a message that prints the state twice
WrongCombination_no_event(s, e) ==
    [text |-> "Wrong state, event combination: ", state |-> s, event |-> s]

\* format!("Wrong state, event combination: {:#?} {:#?}", s, e)
WrongCombination(s, e) ==
    [text |-> "Wrong state, event combination: ", state |-> s, event |-> e]

\* the match of FSM::next, as a function of the current state, the event and
\* SystemTime::now()
match_state_event(s, e, t) ==
    LET sv == s.variant
        evn == e.variant
    IN  CASE sv = "NotAvailable" /\ evn = "Download" ->
                DownloadingInProgress(t)
          [] sv = "DownloadingInProgress" /\ evn = "DownloadingError" ->
                DownloadingError(e.details)
          [] sv = "DownloadingInProgress" /\ evn = "DownloadingComplete" ->
                Downloaded(e.file_path, e.duration)
          [] sv = "DownloadingError" /\ evn = "Reset" ->
                NotAvailable
          [] sv = "Downloaded" /\ evn = "Process" ->
                ProcessingInProgress(e.file_path, t)
          [] sv = "ProcessingInProgress" /\ evn = "ProcessingError" ->
                ProcessingError(e.details)
          [] sv = "ProcessingError" /\ evn = "Reset" ->
                NotAvailable
          [] sv = "ProcessingInProgress" /\ evn = "ProcessingComplete" ->
                Processed(e.file_path, e.duration)
          [] sv = "Processed" /\ evn = "Index" ->
                IndexingInProgress(e.file_path, t)
          [] sv = "Downloaded" /\ evn = "Index" ->
                IndexingInProgress(e.file_path, t)
          [] sv = "IndexingInProgress" /\ evn = "IndexingError" ->
                IndexingError(e.details)
          [] sv = "IndexingError" /\ evn = "Reset" ->
                NotAvailable
          [] sv = "IndexingInProgress" /\ evn = "IndexingComplete" ->
                Indexed(e.duration)
          [] sv = "Indexed" /\ evn = "Validate" ->
                ValidationInProgress
          [] sv = "ValidationInProgress" /\ evn = "ValidationError" ->
                ValidationError(e.details)
          [] sv = "ValidationError" /\ evn = "Reset" ->
                NotAvailable
          [] sv = "ValidationInProgress" /\ evn = "ValidationComplete" ->
                Available
          [] OTHER ->
                Failure(WrongCombination(s, e))

\* a match with one more arm: (State::Available, Event::Reset) => NotAvailable
next_resets_available(s, e, t) ==
    IF s.variant = "Available" /\ e.variant = "Reset"
    THEN NotAvailable
    ELSE match_state_event(s, e, t)

\* a match whose (Downloaded, Index) arm keeps the path of the state
next_keeps_path(s, e, t) ==
    IF s.variant = "Downloaded" /\ e.variant = "Index"
    THEN IndexingInProgress(s.file_path, t)
    ELSE match_state_event(s, e, t)

\* a match whose (DownloadingError, Reset) arm starts the download again
next_restarts_on_reset(s, e, t) ==
    IF s.variant = "DownloadingError" /\ e.variant = "Reset"
    THEN DownloadingInProgress(t)
    ELSE match_state_event(s, e, t)

\* FSM::next: self.state after next(event), called at time t in state s
next(s, e, t) == match_state_event(s, e, t)

----------------------------------------------------------------------------
(* The transition harness: FSM::next applied to every state and event *)

Events ==
    {EvDownload, EvValidate, EvValidationComplete, EvReset}
    \cup {EvDownloadingError(m) : m \in Details}
    \cup {EvProcessingError(m) : m \in Details}
    \cup {EvIndexingError(m) : m \in Details}
    \cup {EvValidationError(m) : m \in Details}
    \cup {EvDownloadingComplete(p, d) : p \in Paths, d \in Times}
    \cup {EvProcessingComplete(p, d) : p \in Paths, d \in Times}
    \cup {EvProcess(p) : p \in Paths}
    \cup {EvIndex(p) : p \in Paths}
    \cup {EvIndexingComplete(d) : d \in Times}

PlainStates ==
    {NotAvailable, ValidationInProgress, Available}
    \cup {DownloadingInProgress(t) : t \in Times}
    \cup {DownloadingError(m) : m \in Details}
    \cup {ProcessingError(m) : m \in Details}
    \cup {IndexingError(m) : m \in Details}
    \cup {ValidationError(m) : m \in Details}
    \cup {Downloaded(p, d) : p \in Paths, d \in Times}
    \cup {Processed(p, d) : p \in Paths, d \in Times}
    \cup {ProcessingInProgress(p, t) : p \in Paths, t \in Times}
    \cup {IndexingInProgress(p, t) : p \in Paths, t \in Times}
    \cup {Indexed(d) : d \in Times}

\* the Failure states FSM::next builds from two wrong combinations
FailureStates ==
    {Failure(WrongCombination(Available, EvDownload)),
     Failure(WrongCombination(NotAvailable, EvReset))}

States == PlainStates \cup FailureStates

----------------------------------------------------------------------------
(* serde_json with #[serde(tag = "type")] *)

\* format!("{}", fsm.id)
Decimal(n) == [kind |-> "number", n |-> n]

\* serde's form of std::time::SystemTime
JsonTime(t) == [secs_since_epoch |-> t, nanos_since_epoch |-> 0]

\* serde's form of std::time::Duration
JsonDuration(d) == [secs |-> d, nanos |-> 0]

\* serde_json::to_string(&state) succeeds; an internally tagged newtype
\* variant holding a string (Failure) cannot be serialized
CanSerialize(s) == s.variant # "Failure"

\* serde_json::to_string(&state), for a state that can be serialized
to_string(s) ==
    LET v == s.variant
    IN  CASE v \in {"NotAvailable", "ValidationInProgress", "Available"} ->
                [kind |-> "object", type |-> v]
          [] v = "DownloadingInProgress" ->
                [kind |-> "object", type |-> v, started_at |-> JsonTime(s.started_at)]
          [] v \in {"DownloadingError", "ProcessingError", "IndexingError",
                    "ValidationError"} ->
                [kind |-> "object", type |-> v, details |-> s.details]
          [] v \in {"Downloaded", "Processed"} ->
                [kind |-> "object", type |-> v, file_path |-> s.file_path,
                 duration |-> JsonDuration(s.duration)]
          [] v \in {"ProcessingInProgress", "IndexingInProgress"} ->
                [kind |-> "object", type |-> v, file_path |-> s.file_path,
                 started_at |-> JsonTime(s.started_at)]
          [] v = "Indexed" ->
                [kind |-> "object", type |-> v, duration |-> JsonDuration(s.duration)]

\* the members serde requires for each variant
RequiredMembers(v) ==
    CASE v \in {"NotAvailable", "ValidationInProgress", "Available"} -> {}
      [] v = "DownloadingInProgress" -> {"started_at"}
      [] v \in {"DownloadingError", "ProcessingError", "IndexingError",
                "ValidationError"} -> {"details"}
      [] v \in {"Downloaded", "Processed"} -> {"file_path", "duration"}
      [] v \in {"ProcessingInProgress", "IndexingInProgress"} ->
            {"file_path", "started_at"}
      [] v = "Indexed" -> {"duration"}
      [] OTHER -> {}

\* serde_json::from_str::<State>(text) succeeds
CanDeserialize(text) ==
    /\ text.kind = "object"
    /\ "type" \in DOMAIN text
    /\ text.type \in StateNames \ {"Failure"}
    /\ RequiredMembers(text.type) \subseteq DOMAIN text

\* serde_json::from_str::<State>(text), for a text that parses
from_str(text) ==
    LET v == text.type
    IN  CASE v \in {"NotAvailable", "ValidationInProgress", "Available"} ->
                [variant |-> v]
          [] v = "DownloadingInProgress" ->
                DownloadingInProgress(text.started_at.secs_since_epoch)
          [] v \in {"DownloadingError", "ProcessingError", "IndexingError",
                    "ValidationError"} ->
                [variant |-> v, details |-> text.details]
          [] v \in {"Downloaded", "Processed"} ->
                [variant |-> v, file_path |-> text.file_path,
                 duration |-> text.duration.secs]
          [] v \in {"ProcessingInProgress", "IndexingInProgress"} ->
                [variant |-> v, file_path |-> text.file_path,
                 started_at |-> text.started_at.secs_since_epoch]
          [] v = "Indexed" ->
                Indexed(text.duration.secs)

----------------------------------------------------------------------------
(* src/src/fsm/mod.rs: FSM::new and FSM::run *)

Ids == 1..MaxIndexes

\* the FSM struct built by FSM::new
NewFSM(index_id, index_type, data_source, region) ==
    [id |-> index_id, state |-> NotAvailable, events |-> <<>>,
     index_type |-> index_type, data_source |-> data_source,
     region |-> region, topic |-> Topic]

\* no FSM has been built for the index
NoFSM == NewFSM(0, "", "", "")

\* results of the external jobs (download_*_region, generate_cosmogony,
\* index_*_region): "ok" or the error they return
JobOutcomes == {"ok"} \cup JobErrors

\* the external job FSM::run calls in the FSM's state, "none" if it calls none
JobOf(f) ==
    LET v == f.state.variant
        ds == f.data_source
    IN  CASE v = "DownloadingInProgress" /\ ds \in {"cosmogony", "osm"} ->
                "download_osm_region"
          [] v = "DownloadingInProgress" /\ ds = "bano" -> "download_bano_region"
          [] v = "DownloadingInProgress" /\ ds = "ntfs" -> "download_ntfs_region"
          [] v = "ProcessingInProgress" /\ ds = "cosmogony" -> "generate_cosmogony"
          [] v = "IndexingInProgress" /\ ds = "bano" -> "index_bano_region"
          [] v = "IndexingInProgress" /\ ds = "osm"
                /\ f.index_type \in {"admins", "streets"} -> "index_osm_region"
          [] v = "IndexingInProgress" /\ ds = "cosmogony" -> "index_cosmogony_region"
          [] v = "IndexingInProgress" /\ ds = "ntfs" -> "index_ntfs_region"
          [] OTHER -> "none"

\* the match of FSM::run: the events it pushes on the queue, given the outcome
\* of the job it calls (if any) and the time at which the job returns
match_state(f, outcome, t) ==
    LET s == f.state
        v == s.variant
        ds == f.data_source
    IN  CASE v = "NotAvailable" -> <<>>
          [] v = "DownloadingInProgress" ->
                IF ds \in {"cosmogony", "bano", "osm", "ntfs"}
                THEN IF outcome = "ok"
                     THEN <<EvDownloadingComplete(<<f.region, ".download">>,
                                                  t - s.started_at)>>
                     ELSE <<EvDownloadingError(<<"Could not download: ", outcome>>)>>
                ELSE <<EvDownloadingError(<<"Dont know how to download ", ds>>)>>
          [] v = "DownloadingError" -> <<EvReset>>
          [] v = "Downloaded" ->
                IF ds = "cosmogony"
                THEN <<EvProcess(s.file_path)>>
                ELSE <<EvIndex(s.file_path)>>
          [] v = "ProcessingInProgress" ->
                IF ds = "cosmogony"
                THEN IF outcome = "ok"
                     THEN <<EvProcessingComplete(<<f.region, ".cosmogony">>,
                                                 t - s.started_at)>>
                     ELSE <<EvProcessingError(<<"Could not process: ", outcome>>)>>
                ELSE <<EvProcessingError(<<"Dont know how to process ", ds>>)>>
          [] v = "ProcessingError" -> <<EvReset>>
          [] v = "Processed" -> <<EvIndex(s.file_path)>>
          [] v = "IndexingInProgress" ->
                CASE ds = "bano" ->
                        IF outcome = "ok"
                        THEN <<EvIndexingComplete(t - s.started_at)>>
                        ELSE <<EvIndexingError(<<"Could not index BANO: ", outcome>>)>>
                  [] ds = "osm" ->
                        IF f.index_type \notin {"admins", "streets"}
                        THEN <<EvIndexingError(<<"Could not index ", f.index_type,
                                                 " using OSM">>)>>
                        ELSE IF outcome = "ok"
                             THEN <<EvIndexingComplete(t - s.started_at)>>
                             ELSE <<EvIndexingError(<<"Could not index OSM: ", outcome>>)>>
                  [] ds = "cosmogony" ->
                        IF outcome = "ok"
                        THEN <<EvIndexingComplete(t - s.started_at)>>
                        ELSE <<EvIndexingError(<<"Could not index cosmogony: ", outcome>>)>>
                  [] ds = "ntfs" ->
                        IF outcome = "ok"
                        THEN <<EvIndexingComplete(t - s.started_at)>>
                        ELSE <<EvIndexingError(<<"Could not index NTFS: ", outcome>>)>>
                  [] OTHER ->
                        <<EvIndexingError(<<"Dont know how to index ", ds>>)>>
          [] v = "IndexingError" -> <<EvReset>>
          [] v = "Indexed" -> <<EvValidate>>
          [] v = "ValidationInProgress" -> <<EvValidationComplete>>
          [] v = "ValidationError" -> <<EvReset>>
          [] v = "Available" -> <<>>
          [] v = "Failure" -> <<>>

\* a run whose Indexed arm pushes nothing
run_forgets_validate(f, outcome, t) ==
    IF f.state.variant = "Indexed" THEN <<>> ELSE match_state(f, outcome, t)

\* a run whose osm arm does not know the index type "admins"
run_unknown_admins(f, outcome, t) ==
    IF /\ f.state.variant = "IndexingInProgress"
       /\ f.data_source = "osm"
       /\ f.index_type = "admins"
    THEN <<EvIndexingError(<<"Could not index ", f.index_type, " using OSM">>)>>
    ELSE match_state(f, outcome, t)

\* a run whose Downloaded arm asks for processing whatever the data source
run_always_processes(f, outcome, t) ==
    IF f.state.variant = "Downloaded"
    THEN <<EvProcess(f.state.file_path)>>
    ELSE match_state(f, outcome, t)

\* a run whose DownloadingError arm pushes nothing
run_stays_in_error(f, outcome, t) ==
    IF f.state.variant = "DownloadingError" THEN <<>> ELSE match_state(f, outcome, t)

\* a run whose download arm treats every data source as one with a job
run_downloads_unknown(f, outcome, t) ==
    IF /\ f.state.variant = "DownloadingInProgress"
       /\ f.data_source \notin {"cosmogony", "bano", "osm", "ntfs"}
    THEN <<EvDownloadingComplete(<<f.region, ".download">>, t - f.state.started_at)>>
    ELSE match_state(f, outcome, t)

\* a run whose osm arm indexes whatever the index type
run_indexes_any_type(f, outcome, t) ==
    IF /\ f.state.variant = "IndexingInProgress"
       /\ f.data_source = "osm"
       /\ f.index_type \notin {"admins", "streets"}
    THEN <<EvIndexingComplete(t - f.state.started_at)>>
    ELSE match_state(f, outcome, t)

\* a run whose cosmogony arm reports a failed job as an indexing error
run_mixes_errors(f, outcome, t) ==
    IF /\ f.state.variant = "ProcessingInProgress"
       /\ f.data_source = "cosmogony"
       /\ outcome # "ok"
    THEN <<EvIndexingError(<<"Could not process: ", outcome>>)>>
    ELSE match_state(f, outcome, t)

\* a run whose Downloaded arm asks for indexing whatever the data source
run_skips_processing(f, outcome, t) ==
    IF f.state.variant = "Downloaded"
    THEN <<EvIndex(f.state.file_path)>>
    ELSE match_state(f, outcome, t)

\* a run whose NotAvailable arm asks for the download again
run_retries_download(f, outcome, t) ==
    IF f.state.variant = "NotAvailable" THEN <<EvDownload>> ELSE match_state(f, outcome, t)

\* a run whose Indexed arm pushes Validate twice
run_pushes_twice(f, outcome, t) ==
    IF f.state.variant = "Indexed"
    THEN <<EvValidate, EvValidate>>
    ELSE match_state(f, outcome, t)

\* a run whose Processed arm asks for the validation
run_validates_early(f, outcome, t) ==
    IF f.state.variant = "Processed" THEN <<EvValidate>> ELSE match_state(f, outcome, t)

\* a run whose validation finds the index invalid
run_fails_validation(f, outcome, t) ==
    IF f.state.variant = "ValidationInProgress"
    THEN <<EvValidationError(<<"Could not validate: ", "404">>)>>
    ELSE match_state(f, outcome, t)

\* FSM::run: the events pushed on self.events
run(f, outcome, t) == match_state(f, outcome, t)

\* a run that leaves an error state by itself instead of pushing Reset
after_run_resets_state(f, outcome, t) ==
    IF f.state.variant \in {"DownloadingError", "ProcessingError",
                            "IndexingError", "ValidationError"}
    THEN [f EXCEPT !.state = NotAvailable]
    ELSE [f EXCEPT !.events = @ \o run(f, outcome, t)]

\* the FSM after FSM::run(&mut self)
after_run(f, outcome, t) == [f EXCEPT !.events = @ \o run(f, outcome, t)]

\* std::thread::sleep(1 s) in ValidationInProgress: the clock when run returns
\* (the modelled clock saturates at MaxClock)
RunReturnsAt(f, t) ==
    IF f.state.variant = "ValidationInProgress" /\ t < MaxClock THEN t + 1 ELSE t

----------------------------------------------------------------------------
(* src/src/db/sqlite.rs: the table `indexes` *)

\* the status column of a freshly inserted row
DefaultStatus == [kind |-> "bareword", word |-> "NotAvailable"]

\* a table whose key is not generated: every row gets index_id 1
InsertedRow_same_id(index_id, index_type, data_source, region, t) ==
    [index_id |-> 1, index_type |-> index_type,
     data_source |-> data_source, region |-> region,
     status |-> [kind |-> "bareword", word |-> "NotAvailable"],
     created_at |-> t, updated_at |-> t]

\* INSERT INTO indexes (index_type, data_source, region); the row read back
InsertedRow(index_id, index_type, data_source, region, t) ==
    [index_id |-> index_id, index_type |-> index_type,
     data_source |-> data_source, region |-> region,
     status |-> DefaultStatus, created_at |-> t, updated_at |-> t]

\* an UPDATE that sets the status only
update_index_status_keeps_time(rows, index_id, status, t) ==
    [k \in DOMAIN rows |->
        IF rows[k].index_id = index_id
        THEN [rows[k] EXCEPT !.status = status]
        ELSE rows[k]]

\* an UPDATE that sets updated_at to the epoch instead of the clock
update_index_status_epoch(rows, index_id, status, t) ==
    [k \in DOMAIN rows |->
        IF rows[k].index_id = index_id
        THEN [rows[k] EXCEPT !.status = status, !.updated_at = 0]
        ELSE rows[k]]

\* an UPDATE without its WHERE clause
update_index_status_all_rows(rows, index_id, status, t) ==
    [k \in DOMAIN rows |-> [rows[k] EXCEPT !.status = status, !.updated_at = t]]

\* UPDATE indexes SET status = $1, updated_at = now WHERE index_id = $2
update_index_status(rows, index_id, status, t) ==
    [k \in DOMAIN rows |->
        IF rows[k].index_id = index_id
        THEN [rows[k] EXCEPT !.status = status, !.updated_at = t]
        ELSE rows[k]]

\* SELECT * FROM indexes ORDER BY updated_at: the possible results (rows
\* with the same updated_at come in any order)
get_all_indexes(rows) ==
    LET n == Len(rows)
        Orders == {q \in [1..n -> 1..n] :
                      /\ \A a, b \in 1..n : a # b => q[a] # q[b]
                      /\ \A a, b \in 1..n :
                            a < b => rows[q[a]].updated_at <= rows[q[b]].updated_at}
    IN  {[k \in 1..n |-> rows[q[k]]] : q \in Orders}

\* the table after a transaction is committed
commit(committed, pending) ==
    update_index_status(committed, pending.index_id, pending.status, pending.updated_at)

\* a transaction dropped after its UPDATE leaves the UPDATE in the table
rollback_keeps_update(committed, pending) ==
    IF pending = <<>> THEN committed ELSE commit(committed, pending)

\* the table after a transaction is dropped without commit (rolled back)
rollback(committed, pending) == committed

----------------------------------------------------------------------------
(* The pub/sub endpoint tcp://127.0.0.1:5555 *)

\* the topic the listener subscribes to (set_subscribe("state"))
Subscription == "state"

\* the inboxes after a multipart message has been sent by the bound publisher:
\* every connected subscriber whose subscription matches frame 0 receives it
Deliver(boxes, conn, msg) ==
    [j \in Ids |->
        IF conn[j] /\ msg[1] = Subscription THEN Append(boxes[j], msg) ELSE boxes[j]]

\* a notifications stream that has not been asked for
NoStream == [on |-> FALSE, id |-> 0, next |-> 1]

----------------------------------------------------------------------------
(* Initial state *)

InitSystem ==
    /\ store = <<>>
    /\ written = [i \in Ids |-> <<>>]
    /\ fsm = [i \in Ids |-> NoFSM]
    /\ pc = [i \in Ids |-> "none"]
    /\ outbox = [i \in Ids |-> <<>>]
    /\ published = [i \in Ids |-> <<>>]
    /\ entered = [i \in Ids |-> <<>>]
    /\ jobs = [i \in Ids |-> <<>>]
    /\ bound = 0
    /\ lpc = [i \in Ids |-> "none"]
    /\ connected = [i \in Ids |-> FALSE]
    /\ inbox = [i \in Ids |-> <<>>]
    /\ calls = <<>>

Init ==
    /\ now = 0
    /\ InitSystem
    /\ pre = NotAvailable
    /\ ev = EvDownload
    /\ post = NotAvailable
    /\ applied = FALSE
    /\ json = <<>>
    /\ back = <<>>
    /\ tx = [i \in Ids |-> <<>>]
    /\ listed = <<>>
    /\ versions = {}
    /\ sub = NoStream
    /\ yielded = <<>>

----------------------------------------------------------------------------------------------------------------------------------------
(* src/src/api/indexes.rs: create_index *)

\* create_index: insert and commit the row, build the FSM (binding the publish
\* socket), spawn update_notifications and fsm::exec, return the row.
\* FSM::new fails when the endpoint is already bound by a running FSM.
CreateIndex(index_type, data_source, region) ==
    LET id == Len(store) + 1
        row == InsertedRow(id, index_type, data_source, region, now)
    IN  /\ Len(store) < MaxIndexes
        /\ store' = Append(store, row)
        /\ IF bound # 0
           THEN /\ calls' = Append(calls, [ok |-> FALSE, index_id |-> id])
                /\ UNCHANGED <<fsm, pc, lpc, bound>>
           ELSE /\ bound' = id
                /\ fsm' = [fsm EXCEPT ![id] = NewFSM(id, index_type, data_source, region)]
                /\ lpc' = [lpc EXCEPT ![id] = "listening"]
                /\ pc' = [pc EXCEPT ![id] = "spawned"]
                /\ calls' = Append(calls, [ok |-> TRUE, index_id |-> id])
        /\ UNCHANGED <<now, written, outbox, published, entered, jobs,
                       connected, inbox, harness>>

----------------------------------------------------------------------------
(* src/src/fsm/mod.rs: exec *)

\* frames in the order topic, status, index id
Frames_status_first(f) == <<f.topic, to_string(f.state), Decimal(f.id)>>

\* the three frames: topic, index id, status
Frames(f) == <<f.topic, Decimal(f.id), to_string(f.state)>>

\* a loop that leaves on NotAvailable before sending it
LoopHead_skips_last_send(f, t) ==
    IF f.events = <<>>
    THEN [fsm |-> f, pc |-> "close", entered |-> <<>>, outbox |-> <<>>]
    ELSE LET state == next(f.state, Head(f.events), t)
             g == [f EXCEPT !.events = Tail(@), !.state = state]
         IN  IF state.variant = "NotAvailable"
             THEN [fsm |-> g, pc |-> "close", entered |-> <<state>>, outbox |-> <<>>]
             ELSE [fsm |-> g, pc |-> "send", entered |-> <<state>>,
                   outbox |-> <<g.topic, Decimal(g.id), to_string(g.state)>>]

\* a loop that waits for another event when it finds the queue empty
LoopHead_waits_for_event(f, t) ==
    IF f.events = <<>>
    THEN [fsm |-> f, pc |-> "wait", entered |-> <<>>, outbox |-> <<>>]
    ELSE LET state == next(f.state, Head(f.events), t)
             g == [f EXCEPT !.events = Tail(@), !.state = state]
         IN  [fsm |-> g, pc |-> "send", entered |-> <<state>>,
              outbox |-> <<g.topic, Decimal(g.id), to_string(g.state)>>]

\* the head of the loop, up to the next suspension of the task:
\* `while let Some(event) = pop_front()`, FSM::next at time t,
\* serde_json::to_string(..).unwrap() and the start of publish.send(..).
\* With an empty queue the loop ends and publish.close() starts; a state
\* that cannot be serialized panics the task.
LoopHead(f, t) ==
    IF f.events = <<>>
    THEN [fsm |-> f, pc |-> "close", entered |-> <<>>, outbox |-> <<>>]
    ELSE LET state == next(f.state, Head(f.events), t)
             g == [f EXCEPT !.events = Tail(@), !.state = state]
         IN  IF CanSerialize(state)
             THEN [fsm |-> g, pc |-> "send", entered |-> <<state>>,
                   outbox |-> Frames(g)]
             ELSE [fsm |-> g, pc |-> "panicked", entered |-> <<state>>,
                   outbox |-> <<>>]

\* the task's move from one suspension to the next, given the FSM as it
\* stands when the loop head is reached at time t
ExecTo(i, f, t) ==
    LET h == LoopHead(f, t)
    IN  /\ fsm' = [fsm EXCEPT ![i] = h.fsm]
        /\ pc' = [pc EXCEPT ![i] = h.pc]
        /\ entered' = [entered EXCEPT ![i] = @ \o h.entered]
        /\ outbox' = [outbox EXCEPT ![i] = h.outbox]
        /\ IF h.pc = "panicked"
           THEN /\ bound' = 0
                /\ connected' = [j \in Ids |-> FALSE]
           ELSE UNCHANGED <<bound, connected>>

\* first poll of the task: fsm.events.push_back(Event::Download), then the
\* loop head
ExecStart(i) ==
    /\ pc[i] = "spawned"
    /\ ExecTo(i, [fsm[i] EXCEPT !.events = Append(@, EvDownload)], now)
    /\ UNCHANGED <<now, store, written, published, jobs, lpc, inbox, calls, harness>>

\* a publish socket that waits for a subscriber before it sends
SendCompletes_needs_subscriber(conn) == \E j \in Ids : conn[j]

\* fsm.publish.send(res).await can complete: a publish socket never waits
\* for subscribers, whatever their connections
SendCompletes(conn) == TRUE

\* fsm.publish.send(res).await completes; break on Failure, else FSM::run
\* (which blocks until its job returns), then the loop head
ExecStep(i) ==
    /\ pc[i] = "send"
    /\ SendCompletes(connected)
    /\ published' = [published EXCEPT ![i] = Append(@, outbox[i])]
    /\ inbox' = Deliver(inbox, connected, outbox[i])
    /\ IF fsm[i].state.variant = "Failure"
       THEN /\ pc' = [pc EXCEPT ![i] = "close"]
            /\ outbox' = [outbox EXCEPT ![i] = <<>>]
            /\ UNCHANGED <<now, fsm, jobs, entered, bound, connected>>
       ELSE IF JobOf(fsm[i]) = "none"
       THEN LET t == RunReturnsAt(fsm[i], now)
            IN  /\ now' = t
                /\ ExecTo(i, after_run(fsm[i], "ok", t), t)
                /\ UNCHANGED jobs
       ELSE \E outcome \in JobOutcomes :
                /\ ExecTo(i, after_run(fsm[i], outcome, now), now)
                /\ jobs' = [jobs EXCEPT ![i] =
                               Append(@, [job |-> JobOf(fsm[i]), outcome |-> outcome])]
                /\ UNCHANGED now
    /\ UNCHANGED <<store, written, lpc, calls, harness>>

\* fsm.publish.close().await completes; exec returns
ExecClose(i) ==
    /\ pc[i] = "close"
    /\ bound' = 0
    /\ connected' = [j \in Ids |-> FALSE]
    /\ pc' = [pc EXCEPT ![i] = "done"]
    /\ UNCHANGED <<now, store, written, fsm, outbox, published, entered, jobs,
                   lpc, inbox, calls, harness>>

----------------------------------------------------------------------------
(* src/src/api/indexes.rs: update_notifications *)

\* the subscribe socket's connection to a bound publisher is established
\* (subscribe(..).connect() and set_subscribe("state") have been called)
ListenerConnect(i) ==
    /\ lpc[i] = "listening"
    /\ ~connected[i]
    /\ bound # 0
    /\ connected' = [connected EXCEPT ![i] = TRUE]
    /\ UNCHANGED <<now, store, written, fsm, pc, outbox, published, entered,
                   jobs, bound, lpc, inbox, calls, harness>>

\* the frame after the index id
StatusFrame_third == 1 + 2

\* msg.iter().skip(1).next(), as an index into the frames
StatusFrame == 2

\* the match on the parsed status that ends the loop
IsLast(status) == status.variant \in {"NotAvailable", "Available"}

\* the task ends with `result`; its subscribe socket is dropped
ListenerExit(i, result) ==
    /\ lpc' = [lpc EXCEPT ![i] = result]
    /\ inbox' = [inbox EXCEPT ![i] = <<>>]
    /\ connected' = [connected EXCEPT ![i] = FALSE]

\* one turn of the loop: receive a message, take its status frame, parse it,
\* update and commit the row, leave the loop on NotAvailable or Available
ListenerRecv(i) ==
    /\ lpc[i] = "listening"
    /\ inbox[i] # <<>>
    /\ LET frames == Head(inbox[i])
       IN  IF Len(frames) < StatusFrame
           THEN /\ ListenerExit(i, "err")
                /\ UNCHANGED <<store, written>>
           ELSE LET msg == frames[StatusFrame]
                IN  IF ~CanDeserialize(msg)
                    THEN /\ ListenerExit(i, "err")
                         /\ UNCHANGED <<store, written>>
                    ELSE /\ store' = update_index_status(store, i, msg, now)
                         /\ written' = [written EXCEPT ![i] = Append(@, msg)]
                         /\ IF IsLast(from_str(msg))
                            THEN ListenerExit(i, "ok")
                            ELSE /\ inbox' = [inbox EXCEPT ![i] = Tail(@)]
                                 /\ UNCHANGED <<lpc, connected>>
    /\ UNCHANGED <<now, fsm, pc, outbox, published, entered, jobs, bound,
                   calls, harness>>

----------------------------------------------------------------------------
(* The clock *)

Tick ==
    /\ now < MaxClock
    /\ now' = now + 1
    /\ UNCHANGED <<sysvars, harness>>

----------------------------------------------------------------------------
(* The system *)

Next ==
    \/ \E r \in Requests : CreateIndex(r.index_type, r.data_source, r.region)
    \/ \E i \in Ids : ExecStart(i)
    \/ \E i \in Ids : ExecStep(i)
    \/ \E i \in Ids : ExecClose(i)
    \/ \E i \in Ids : ListenerConnect(i)
    \/ \E i \in Ids : ListenerRecv(i)
    \/ Tick

Spec == Init /\ [][Next]_vars

\* one call of create_index, with any request
CreateFirst ==
    /\ Len(store) = 0
    /\ \E r \in AllRequests : CreateIndex(r.index_type, r.data_source, r.region)

NextRun ==
    \/ CreateFirst
    \/ \E i \in Ids : ExecStart(i)
    \/ \E i \in Ids : ExecStep(i)
    \/ \E i \in Ids : ExecClose(i)
    \/ \E i \in Ids : ListenerConnect(i)
    \/ \E i \in Ids : ListenerRecv(i)
    \/ Tick

SpecRun == Init /\ [][NextRun]_vars

\* the runtime polls every spawned task that can make progress, each job
\* returns, and a subscribe socket connects to a publisher that stays bound
Fairness ==
    \A i \in Ids :
        /\ WF_vars(ExecStart(i))
        /\ WF_vars(ExecStep(i))
        /\ WF_vars(ExecClose(i))
        /\ WF_vars(ListenerConnect(i))
        /\ WF_vars(ListenerRecv(i))

SpecRunFair == Init /\ [][NextRun]_vars /\ Fairness

----------------------------------------------------------------------------
(* The listener harness: update_notifications given the messages a         *)
(* publisher on the endpoint may send, its turn taken await by await, with *)
(* store and bus failures and a concurrent reader                          *)

\* the messages given to a listener: (topic, status) as the listener's
\* comment describes them, and (topic, index id, status) as exec sends them
HarnessMessages ==
    {<<Topic, to_string(DownloadingInProgress(0))>>,
     <<Topic, to_string(Available)>>,
     <<Topic, Decimal(1), to_string(Available)>>}

\* the listener's socket receives a message
Receive(i, msg) ==
    /\ lpc[i] = "listening"
    /\ inbox[i] = <<>>
    /\ Cardinality({w \in Ids \X (1..MaxWrites) : w[2] <= Len(written[w[1]])})
         + Cardinality({j \in Ids : inbox[j] # <<>>}) < MaxWrites
    /\ inbox' = [inbox EXCEPT ![i] = <<msg>>]
    /\ UNCHANGED <<now, store, written, fsm, pc, outbox, published, entered,
                   jobs, bound, lpc, connected, calls, harness>>

\* zmq.next().await returns: the status frame is taken and parsed, and a
\* transaction is begun on a connection of the pool
ListenerTake(i) ==
    /\ lpc[i] = "listening"
    /\ inbox[i] # <<>>
    /\ LET frames == Head(inbox[i])
       IN  IF Len(frames) >= StatusFrame /\ CanDeserialize(frames[StatusFrame])
           THEN /\ lpc' = [lpc EXCEPT ![i] = "begun"]
                /\ UNCHANGED <<inbox, connected>>
           ELSE ListenerExit(i, "err")
    /\ UNCHANGED <<now, store, written, fsm, pc, outbox, published, entered,
                   jobs, bound, calls, harness>>

\* tx.update_index_status(index_id, msg).await: the UPDATE is executed in the
\* transaction, at the store's clock; one transaction writes at a time
ListenerUpdate(i) ==
    /\ lpc[i] = "begun"
    /\ \A j \in Ids : tx[j] = <<>>
    /\ LET msg == Head(inbox[i])[StatusFrame]
       IN  /\ tx' = [tx EXCEPT ![i] =
                         [index_id |-> i, status |-> msg, updated_at |-> now]]
           /\ versions' = versions \cup
                 {[index_id |-> i, status |-> msg, updated_at |-> now]}
    /\ lpc' = [lpc EXCEPT ![i] = "updated"]
    /\ UNCHANGED <<now, store, written, fsm, pc, outbox, published, entered, jobs,
                   bound, connected, inbox, calls, pre, ev, post, applied, json,
                   back, listed, streamvars>>

\* tx.commit().await, then the match on the parsed status
ListenerCommit(i) ==
    /\ lpc[i] = "updated"
    /\ LET msg == Head(inbox[i])[StatusFrame]
       IN  /\ store' = commit(store, tx[i])
           /\ written' = [written EXCEPT ![i] = Append(@, msg)]
           /\ IF IsLast(from_str(msg))
              THEN ListenerExit(i, "ok")
              ELSE /\ lpc' = [lpc EXCEPT ![i] = "listening"]
                   /\ inbox' = [inbox EXCEPT ![i] = Tail(@)]
                   /\ UNCHANGED connected
    /\ tx' = [tx EXCEPT ![i] = <<>>]
    /\ UNCHANGED <<now, fsm, pc, outbox, published, entered, jobs, bound, calls,
                   pre, ev, post, applied, json, back, listed, versions,
                   streamvars>>

\* a store call of the turn fails: `?` returns the error, the transaction is
\* dropped
ListenerStoreError(i) ==
    /\ lpc[i] \in {"begun", "updated"}
    /\ store' = rollback(store, tx[i])
    /\ tx' = [tx EXCEPT ![i] = <<>>]
    /\ ListenerExit(i, "err")
    /\ UNCHANGED <<now, written, fsm, pc, outbox, published, entered, jobs, bound,
                   calls, pre, ev, post, applied, json, back, listed, versions,
                   streamvars>>

\* fsm.publish.send(res).await fails: unwrap panics, the task ends and its
\* socket is dropped
ExecSendFails(i) ==
    /\ pc[i] = "send"
    /\ pc' = [pc EXCEPT ![i] = "panicked"]
    /\ outbox' = [outbox EXCEPT ![i] = <<>>]
    /\ bound' = 0
    /\ connected' = [j \in Ids |-> FALSE]
    /\ UNCHANGED <<now, store, written, fsm, published, entered, jobs, lpc,
                   inbox, calls, harness>>

\* the API reads the table on another connection of the pool
ListAll ==
    /\ listed' \in get_all_indexes(store)
    /\ listed' # listed
    /\ UNCHANGED <<now, sysvars, pre, ev, post, applied, json, back, tx, versions,
                   streamvars>>

NextListen ==
    \/ CreateIndex("admins", "unknown", "andorra")
    \/ \E i \in Ids : ExecStart(i)
    \/ \E i \in Ids : ExecStep(i)
    \/ \E i \in Ids : ExecClose(i)
    \/ \E i \in Ids : ExecSendFails(i)
    \/ \E i \in Ids, msg \in HarnessMessages : Receive(i, msg)
    \/ \E i \in Ids : ListenerTake(i)
    \/ \E i \in Ids : ListenerUpdate(i)
    \/ \E i \in Ids : ListenerCommit(i)
    \/ \E i \in Ids : ListenerStoreError(i)
    \/ ListAll
    \/ Tick

SpecListen == Init /\ [][NextListen]_vars

----------------------------------------------------------------------------
(* src/src/api/gql.rs: Subscription::notifications *)

\* str::parse::<i32>() succeeds on the frame
ParsesAsId(frame) == frame.kind = "number"

\* a closure that yields no item for a status that is not a State
notification_drops_unparsed(msg) ==
    IF Len(msg) < 2 THEN [ok |-> FALSE, error |-> "MiscError"]
    ELSE IF ~ParsesAsId(msg[2]) THEN [ok |-> FALSE, error |-> "ParseIntError"]
    ELSE IF Len(msg) < 3 THEN [ok |-> FALSE, error |-> "MiscError"]
    ELSE IF ~CanDeserialize(msg[3]) THEN [ok |-> FALSE, error |-> "SerdeJSONError"]
    ELSE [ok |-> TRUE, id |-> msg[2].n, status |-> msg[3]]

\* the closure given to zmq.map: the item the stream yields for a message.
\* msg.get(1) is parsed as the id, msg.get(2) is the status, each missing
\* frame and a failed parse of the id give an error item; a status that is
\* not a State is only logged
notification(msg) ==
    IF Len(msg) < 2 THEN [ok |-> FALSE, error |-> "MiscError"]
    ELSE IF ~ParsesAsId(msg[2]) THEN [ok |-> FALSE, error |-> "ParseIntError"]
    ELSE IF Len(msg) < 3 THEN [ok |-> FALSE, error |-> "MiscError"]
    ELSE [ok |-> TRUE, id |-> msg[2].n, status |-> msg[3]]

\* messages of a publisher other than a driver: a status that is not a
\* State, an id that is not a number, a message without a status frame
GivenMessages ==
    {<<Topic, Decimal(1), DefaultStatus>>,
     <<Topic, DefaultStatus, to_string(Available)>>,
     <<Topic, Decimal(1)>>}

\* notifications(context): the subscribe socket is connected to the bound
\* publisher and subscribed to the topic; messages sent before are not received
Subscribe ==
    /\ ~sub.on
    /\ bound # 0
    /\ sub' = [on |-> TRUE, id |-> bound, next |-> Len(published[bound]) + 1]
    /\ UNCHANGED <<now, sysvars, pre, ev, post, applied, json, back, storevars,
                   yielded>>

\* the stream is polled and yields the item of the next message of the driver
StreamNext ==
    /\ sub.on
    /\ sub.next <= Len(published[sub.id])
    /\ LET msg == published[sub.id][sub.next]
       IN  yielded' = Append(yielded, [msg |-> msg, item |-> notification(msg)])
    /\ sub' = [sub EXCEPT !.next = @ + 1]
    /\ UNCHANGED <<now, sysvars, pre, ev, post, applied, json, back, storevars>>

\* the stream is polled and yields the item of a message another publisher sent
StreamGiven(msg) ==
    /\ sub.on
    /\ \A k \in 1..Len(yielded) : yielded[k].msg \notin GivenMessages
    /\ yielded' = Append(yielded, [msg |-> msg, item |-> notification(msg)])
    /\ UNCHANGED <<now, sysvars, pre, ev, post, applied, json, back, storevars, sub>>

NextNotify ==
    \/ CreateFirst
    \/ \E i \in Ids : ExecStart(i)
    \/ \E i \in Ids : ExecStep(i)
    \/ \E i \in Ids : ExecClose(i)
    \/ Subscribe
    \/ StreamNext
    \/ \E msg \in GivenMessages : StreamGiven(msg)
    \/ Tick

SpecNotify == Init /\ [][NextNotify]_vars

----------------------------------------------------------------------------
(* The loop harness: the steps of exec's loop taken from any FSM *)

\* the time a state was entered, 0 if it records none
StartedAt(s) == IF "started_at" \in DOMAIN s THEN s.started_at ELSE 0

\* FSM 1 about to be given to FSM::run, for every request and state, and
\* FSM 1 at the head of the loop, for every state and queued event
InitLoop ==
    /\ now \in Times
    /\ store = <<>>
    /\ written = [i \in Ids |-> <<>>]
    /\ outbox = [i \in Ids |-> <<>>]
    /\ published = [i \in Ids |-> <<>>]
    /\ entered = [i \in Ids |-> <<>>]
    /\ jobs = [i \in Ids |-> <<>>]
    /\ bound = 1
    /\ lpc = [i \in Ids |-> "none"]
    /\ connected = [i \in Ids |-> FALSE]
    /\ inbox = [i \in Ids |-> <<>>]
    /\ calls = <<>>
    /\ \E s \in States :
          /\ StartedAt(s) <= now
          /\ \/ /\ pc = [i \in Ids |-> IF i = 1 THEN "run" ELSE "none"]
                /\ \E r \in AllRequests :
                      fsm = [i \in Ids |->
                                IF i = 1
                                THEN [NewFSM(1, r.index_type, r.data_source, r.region)
                                         EXCEPT !.state = s]
                                ELSE NoFSM]
             \/ /\ pc = [i \in Ids |-> IF i = 1 THEN "loop" ELSE "none"]
                /\ \E r \in Requests, e \in Events :
                      fsm = [i \in Ids |->
                                IF i = 1
                                THEN [NewFSM(1, r.index_type, r.data_source, r.region)
                                         EXCEPT !.state = s, !.events = <<e>>]
                                ELSE NoFSM]
    /\ pre = NotAvailable
    /\ ev = EvDownload
    /\ post = NotAvailable
    /\ applied = FALSE
    /\ json = <<>>
    /\ back = <<>>
    /\ tx = [i \in Ids |-> <<>>]
    /\ listed = <<>>
    /\ versions = {}
    /\ sub = NoStream
    /\ yielded = <<>>

\* fsm.run().await alone
Dispatch(i) ==
    /\ pc[i] = "run"
    /\ pc' = [pc EXCEPT ![i] = "loop"]
    /\ IF JobOf(fsm[i]) = "none"
       THEN LET t == RunReturnsAt(fsm[i], now)
            IN  /\ now' = t
                /\ fsm' = [fsm EXCEPT ![i] = after_run(fsm[i], "ok", t)]
                /\ UNCHANGED jobs
       ELSE \E outcome \in JobOutcomes :
                /\ fsm' = [fsm EXCEPT ![i] = after_run(fsm[i], outcome, now)]
                /\ jobs' = [jobs EXCEPT ![i] =
                               Append(@, [job |-> JobOf(fsm[i]), outcome |-> outcome])]
                /\ UNCHANGED now
    /\ UNCHANGED <<store, written, outbox, published, entered, bound, lpc,
                   connected, inbox, calls, harness>>

\* the head of the loop alone
ExecLoop(i) ==
    /\ pc[i] = "loop"
    /\ ExecTo(i, fsm[i], now)
    /\ UNCHANGED <<now, store, written, published, jobs, lpc, inbox, calls, harness>>

NextLoop ==
    \/ \E i \in Ids : Dispatch(i)
    \/ \E i \in Ids : ExecLoop(i)
    \/ \E i \in Ids : ExecStep(i)
    \/ \E i \in Ids : ExecClose(i)

SpecLoop == InitLoop /\ [][NextLoop]_vars

----------------------------------------------------------------------------
(* The transition harness: FSM::next applied to every state and event *)

InitNext ==
    /\ now \in Times
    /\ InitSystem
    /\ pre \in States
    /\ ev \in Events
    /\ post = pre
    /\ applied = FALSE
    /\ json = <<>>
    /\ back = <<>>
    /\ tx = [i \in Ids |-> <<>>]
    /\ listed = <<>>
    /\ versions = {}
    /\ sub = NoStream
    /\ yielded = <<>>

ApplyNext ==
    /\ ~applied
    /\ post' = next(pre, ev, now)
    /\ applied' = TRUE
    /\ UNCHANGED <<now, sysvars, pre, ev, json, back, storevars, streamvars>>

\* serde_json::to_string(&pre): Ok(text) or Err
Serialize ==
    /\ json = <<>>
    /\ json' = IF CanSerialize(pre) THEN <<"Ok", to_string(pre)>> ELSE <<"Err">>
    /\ UNCHANGED <<now, sysvars, pre, ev, post, applied, back, storevars, streamvars>>

\* serde_json::from_str::<State>(&json), for the text of an Ok: Ok(state) or Err
Deserialize ==
    /\ json # <<>>
    /\ json[1] = "Ok"
    /\ back = <<>>
    /\ back' = IF CanDeserialize(json[2]) THEN <<"Ok", from_str(json[2])>> ELSE <<"Err">>
    /\ UNCHANGED <<now, sysvars, pre, ev, post, applied, json, storevars, streamvars>>

NextNext ==
    \/ ApplyNext
    \/ Serialize
    \/ Deserialize

SpecNext == InitNext /\ [][NextNext]_vars

----------------------------------------------------------------------------
(* The transition table of the specification *)

Row(from, on, to) == [from |-> from, on |-> on, to |-> to]

Table ==
    {Row("NotAvailable", "Download", "DownloadingInProgress"),
     Row("DownloadingInProgress", "DownloadingComplete", "Downloaded"),
     Row("DownloadingInProgress", "DownloadingError", "DownloadingError"),
     Row("DownloadingError", "Reset", "NotAvailable"),
     Row("Downloaded", "Process", "ProcessingInProgress"),
     Row("Downloaded", "Index", "IndexingInProgress"),
     Row("ProcessingInProgress", "ProcessingComplete", "Processed"),
     Row("ProcessingInProgress", "ProcessingError", "ProcessingError"),
     Row("ProcessingError", "Reset", "NotAvailable"),
     Row("Processed", "Index", "IndexingInProgress"),
     Row("IndexingInProgress", "IndexingComplete", "Indexed"),
     Row("IndexingInProgress", "IndexingError", "IndexingError"),
     Row("IndexingError", "Reset", "NotAvailable"),
     Row("Indexed", "Validate", "ValidationInProgress"),
     Row("ValidationInProgress", "ValidationComplete", "Available"),
     Row("ValidationInProgress", "ValidationError", "ValidationError"),
     Row("ValidationError", "Reset", "NotAvailable")}

RowsFor(s, e) == {row \in Table : row.from = s.variant /\ row.on = e.variant}

Legal(s, e) == RowsFor(s, e) # {}

\* the payload of a state or an event: its fields other than the variant
\* name and the time the state was entered
PayloadFields(r) == DOMAIN r \ {"variant", "started_at"}

\* C1: for each of the 17 legal (state, event) pairs FSM::next yields exactly
\* the listed target variant, whose payload fields are those of the event with
\* the event's values, and whose started_at (if any) is the time of the call.
C1_LegalTransitions ==
    (applied /\ Legal(pre, ev)) =>
        /\ \A row \in RowsFor(pre, ev) : post.variant = row.to
        /\ PayloadFields(post) = PayloadFields(ev)
        /\ \A f \in PayloadFields(ev) : post[f] = ev[f]
        /\ "started_at" \in DOMAIN post => post.started_at = now

C1_Witness ==
    /\ applied
    /\ pre.variant = "Downloaded"
    /\ ev.variant = "Index"
    /\ pre.file_path # ev.file_path
    /\ post = IndexingInProgress(ev.file_path, now)

\* C2: for every (state, event) pair outside the 17 legal ones FSM::next
\* yields Failure, with a message that holds the offending state and the
\* offending event.
C2_IllegalYieldsFailure ==
    (applied /\ ~Legal(pre, ev)) =>
        /\ post.variant = "Failure"
        /\ post.message.state = pre
        /\ post.message.event = ev

C2_Witness ==
    /\ applied
    /\ pre = Available
    /\ ev = EvDownload
    /\ post = Failure(WrongCombination(Available, EvDownload))

\* C3: Available and Failure have no outgoing transition: whatever the event,
\* FSM::next called in Available or in Failure yields Failure.
C3_AbsorbingStates ==
    (applied /\ pre.variant \in {"Available", "Failure"}) => post.variant = "Failure"

C3_Witness ==
    /\ applied
    /\ pre.variant = "Failure"
    /\ ev.variant = "Reset"
    /\ post.variant = "Failure"
    /\ post.message.state = pre

----------------------------------------------------------------------------
(* Driver runs *)

\* the status frames of a sequence of published messages
Statuses(msgs) == [k \in 1..Len(msgs) |-> msgs[k][3]]

\* the state types of a sequence of published messages
Types(msgs) == [k \in 1..Len(msgs) |-> msgs[k][3].type]

IsPrefix(a, b) ==
    /\ Len(a) <= Len(b)
    /\ \A k \in 1..Len(a) : a[k] = b[k]

\* every job run so far for index i has succeeded
AllJobsOk(i) == \A k \in 1..Len(jobs[i]) : jobs[i][k].outcome = "ok"

\* exec has returned for index i
Returned(i) == pc[i] = "done"

\* C4: in a driver run the messages whose send has completed are, in order,
\* the three frames (topic, decimal index id, JSON of the state) of the states
\* entered by the transitions, one message per transition; at most the
\* message of the last transition is still being sent, and it is the one
\* handed to the publisher.
C4_OneMessagePerTransition ==
    \A i \in Ids :
        /\ Len(published[i]) =
              IF pc[i] = "send" THEN Len(entered[i]) - 1 ELSE Len(entered[i])
        /\ \A k \in 1..Len(published[i]) :
              /\ Len(published[i][k]) = 3
              /\ published[i][k][1] = Topic
              /\ published[i][k][2] = Decimal(i)
              /\ CanDeserialize(published[i][k][3])
              /\ from_str(published[i][k][3]) = entered[i][k]
        /\ pc[i] = "send" =>
              /\ outbox[i][2] = Decimal(i)
              /\ CanDeserialize(outbox[i][3])
              /\ from_str(outbox[i][3]) = entered[i][Len(entered[i])]
              /\ fsm[i].state = entered[i][Len(entered[i])]

C4_Witness ==
    /\ pc[1] = "send"
    /\ Len(published[1]) = 2
    /\ Len(entered[1]) = 3
    /\ entered[1][3].variant = "ProcessingInProgress"
    /\ outbox[1][3].type = "ProcessingInProgress"

\* C5: when exec has returned, the driver has published at least one message
\* and the last one carries Available, Failure, or NotAvailable entered from
\* an error state (by Reset).
C5_LastMessage ==
    \A i \in Ids :
        Returned(i) =>
            LET n == Len(published[i])
            IN  /\ n >= 1
                /\ Types(published[i])[n] \in {"Available", "NotAvailable", "Failure"}
                /\ Types(published[i])[n] = "NotAvailable" =>
                      /\ n >= 2
                      /\ Types(published[i])[n - 1] \in
                            {"DownloadingError", "ProcessingError",
                             "IndexingError", "ValidationError"}

C5_Witness ==
    /\ Returned(1)
    /\ Len(published[1]) = 5
    /\ Types(published[1])[4] = "IndexingError"
    /\ Types(published[1])[5] = "NotAvailable"

\* the run of index i is a run for osm admins in which every job succeeded
S1(i) ==
    /\ Returned(i)
    /\ fsm[i].index_type = "admins"
    /\ fsm[i].data_source = "osm"
    /\ AllJobsOk(i)

\* C7 as stated: the published types of scenario S1 start with NotAvailable.
C7_S1_AsStated ==
    \A i \in Ids :
        S1(i) => Types(published[i]) =
            <<"NotAvailable", "DownloadingInProgress", "Downloaded",
              "IndexingInProgress", "Indexed", "ValidationInProgress", "Available">>

\* C7, amended: for osm admins with every job succeeding the published types
\* are exactly DownloadingInProgress, Downloaded, IndexingInProgress, Indexed,
\* ValidationInProgress, Available (the initial NotAvailable is not published).
C7_S1 ==
    \A i \in Ids :
        S1(i) => Types(published[i]) =
            <<"DownloadingInProgress", "Downloaded",
              "IndexingInProgress", "Indexed", "ValidationInProgress", "Available">>

C7_Witness ==
    /\ S1(1)
    /\ Len(jobs[1]) = 2
    /\ Types(published[1])[Len(published[1])] = "Available"

\* C9: for cosmogony with every job succeeding the published types contain
\* Downloaded, ProcessingInProgress, Processed, IndexingInProgress in a row;
\* for every other data source neither ProcessingInProgress nor Processed is
\* ever published.
C9_S2 ==
    \A i \in Ids :
        /\ (Returned(i) /\ fsm[i].data_source = "cosmogony" /\ AllJobsOk(i)) =>
              \E k \in 1..Len(published[i]) :
                  /\ k + 3 <= Len(published[i])
                  /\ Types(published[i])[k] = "Downloaded"
                  /\ Types(published[i])[k + 1] = "ProcessingInProgress"
                  /\ Types(published[i])[k + 2] = "Processed"
                  /\ Types(published[i])[k + 3] = "IndexingInProgress"
        /\ fsm[i].data_source # "cosmogony" =>
              \A k \in 1..Len(published[i]) :
                  Types(published[i])[k] \notin {"ProcessingInProgress", "Processed"}

C9_Witness ==
    /\ Returned(1)
    /\ fsm[1].data_source = "cosmogony"
    /\ AllJobsOk(1)
    /\ Len(jobs[1]) = 3
    /\ Len(published[1]) = 8

\* the download job of index i was run and failed
DownloadFailed(i) ==
    /\ Returned(i)
    /\ Len(jobs[i]) >= 1
    /\ jobs[i][1].job \in {"download_osm_region", "download_bano_region",
                           "download_ntfs_region"}
    /\ jobs[i][1].outcome # "ok"

\* C10 as stated: the published types of scenario S3 start with NotAvailable.
C10_S3_AsStated ==
    \A i \in Ids :
        DownloadFailed(i) => Types(published[i]) =
            <<"NotAvailable", "DownloadingInProgress", "DownloadingError", "NotAvailable">>

\* C10, amended: when the download job fails the published types are exactly
\* DownloadingInProgress, DownloadingError, NotAvailable (the initial
\* NotAvailable is not published).
C10_S3 ==
    \A i \in Ids :
        DownloadFailed(i) => Types(published[i]) =
            <<"DownloadingInProgress", "DownloadingError", "NotAvailable">>

C10_Witness ==
    /\ DownloadFailed(1)
    /\ fsm[1].data_source = "bano"
    /\ published[1][2][3].details = <<"Could not download: ", "404">>

----------------------------------------------------------------------------
(* The store and the listeners *)

C8_AvailableStored ==
    \A i \in Ids :
        (/\ Returned(i)
         /\ AllJobsOk(i)
         /\ Types(published[i])[Len(published[i])] = "Available"
         /\ lpc[i] \in {"ok", "err"}) =>
            store[i].status = to_string(Available)

----------------------------------------------------------------------------
(* Failed runs *)

ErrorTypes ==
    {"DownloadingError", "ProcessingError", "IndexingError", "ValidationError"}

\* exec has returned for index i after one of its jobs failed
JobFailed(i) ==
    /\ Returned(i)
    /\ \E k \in 1..Len(jobs[i]) : jobs[i][k].outcome # "ok"

\* the task running update_notifications for index i has ended
ListenerEnded(i) == lpc[i] \in {"ok", "err"}

\* C11 as stated: after a run in which a job failed, once the listener has
\* ended, the statuses written to the record end with an *Error status
\* followed by NotAvailable, NotAvailable is the stored status, and the
\* record is still in the store.
C11_ErrorThenNotAvailableStored ==
    \A i \in Ids :
        (JobFailed(i) /\ ListenerEnded(i)) =>
            LET n == Len(written[i])
            IN  /\ n >= 2
                /\ written[i][n - 1].type \in ErrorTypes
                /\ written[i][n] = to_string(NotAvailable)
                /\ i <= Len(store)
                /\ store[i].status = to_string(NotAvailable)

\* exec has returned for index i, whose data source has no download job
UnknownSource(i) ==
    /\ Returned(i)
    /\ fsm[i].data_source \notin {"osm", "bano", "cosmogony", "ntfs", ""}

\* the run of index i ran no job and its published states end with
\* DownloadingError, whose detail is `literal` followed by the data source,
\* then NotAvailable
EndsInDownloadingError(i, literal) ==
    LET n == Len(published[i])
    IN  /\ jobs[i] = <<>>
        /\ n >= 2
        /\ Types(published[i])[n - 1] = "DownloadingError"
        /\ published[i][n - 1][3].details = <<literal, fsm[i].data_source>>
        /\ Types(published[i])[n] = "NotAvailable"

\* C12 as stated: for a data source outside {osm, bano, cosmogony, ntfs} the
\* detail of DownloadingError reads "don't know how to download <src>".
C12_S4_AsStated ==
    \A i \in Ids :
        UnknownSource(i) => EndsInDownloadingError(i, "don't know how to download ")

\* C12, amended: for a data source outside {osm, bano, cosmogony, ntfs} no
\* job is run, the published states end with DownloadingError then
\* NotAvailable, and the detail of DownloadingError is
\* "Dont know how to download <src>".
C12_S4 ==
    \A i \in Ids :
        UnknownSource(i) => EndsInDownloadingError(i, "Dont know how to download ")

C12_Witness ==
    /\ UnknownSource(1)
    /\ fsm[1].data_source = "unknown"
    /\ Types(published[1]) =
          <<"DownloadingInProgress", "DownloadingError", "NotAvailable">>

\* index i is an osm index of a type other than admins and streets whose
\* download succeeded
S5(i) ==
    /\ fsm[i].data_source = "osm"
    /\ fsm[i].index_type \notin {"admins", "streets"}
    /\ Len(jobs[i]) >= 1
    /\ jobs[i][1].outcome = "ok"

\* C13: for osm with an index type other than admins and streets, after a
\* successful download, no index job is ever run and neither Indexed nor
\* Available is ever published; once IndexingInProgress has been left the
\* published types are DownloadingInProgress, Downloaded, IndexingInProgress,
\* IndexingError (NotAvailable after it), the detail of IndexingError holding
\* the index type.
C13_S5 ==
    \A i \in Ids :
        S5(i) =>
            /\ Len(jobs[i]) = 1
            /\ jobs[i][1].job = "download_osm_region"
            /\ \A k \in 1..Len(published[i]) :
                  Types(published[i])[k] \notin {"Indexed", "Available"}
            /\ Len(published[i]) >= 4 =>
                  /\ IsPrefix(<<"DownloadingInProgress", "Downloaded",
                                "IndexingInProgress", "IndexingError">>,
                              Types(published[i]))
                  /\ published[i][4][3].details =
                        <<"Could not index ", fsm[i].index_type, " using OSM">>
            /\ Returned(i) =>
                  Types(published[i]) =
                      <<"DownloadingInProgress", "Downloaded", "IndexingInProgress",
                        "IndexingError", "NotAvailable">>

C13_Witness ==
    /\ S5(1)
    /\ Returned(1)
    /\ fsm[1].index_type = "poi"
    /\ published[1][4][3].details = <<"Could not index ", "poi", " using OSM">>

----------------------------------------------------------------------------
(* The listener's handling of a message *)

\* the listener of index i is about to read a message
Reads(i) == lpc[i] = "listening" /\ inbox[i] # <<>>

\* the frame the listener takes as the status parses as a State
Parses(frames) ==
    /\ Len(frames) >= StatusFrame
    /\ CanDeserialize(frames[StatusFrame])

\* C14 as stated: the listener of index i skips a message whose frame 1 is
\* not i: reading it writes nothing to the store and leaves the listener
\* listening.
C14_ForeignMessageSkipped ==
    [][\A i \in Ids :
          (Reads(i) /\ Head(inbox[i])[2] # Decimal(i) /\ ListenerRecv(i)) =>
              /\ store' = store
              /\ written' = written
              /\ lpc'[i] = "listening"]_vars

\* C15 as stated: when the status the listener reads does not parse as a
\* State, the listener writes nothing, drops the message and keeps listening.
C15_ParseFailureSkipped ==
    [][\A i \in Ids :
          (Reads(i) /\ ~Parses(Head(inbox[i])) /\ ListenerRecv(i)) =>
              /\ store' = store
              /\ written' = written
              /\ lpc'[i] = "listening"
              /\ inbox'[i] = Tail(inbox[i])]_vars

\* C16 as stated: reading a message that carries Available or NotAvailable,
\* the listener stores it and ends with Ok; reading a message that carries
\* any other state, it keeps listening; it ends with Ok in no other way.
C16_ExitsOnLastState ==
    [][\A i \in Ids :
          /\ (Reads(i) /\ ListenerRecv(i)) =>
                LET status == Head(inbox[i])[3]
                IN  IF status.type \in {"Available", "NotAvailable"}
                    THEN /\ lpc'[i] = "ok"
                         /\ store'[i].status = status
                    ELSE lpc'[i] = "listening"
          /\ (lpc[i] # "ok" /\ lpc'[i] = "ok") =>
                /\ Reads(i)
                /\ Head(inbox[i])[3].type \in {"Available", "NotAvailable"}]_vars

\* C17 as stated: once the driver of an index has returned, the listener of
\* that index eventually ends.
C17_NoListenerLeaked ==
    \A i \in Ids : (pc[i] = "done") ~> ListenerEnded(i)

----------------------------------------------------------------------------
(* serde round trip *)

\* C18 as stated: serializing any State succeeds, and parsing the text gives
\* the state back.
C18_RoundTrip ==
    /\ json # <<>> => json[1] = "Ok"
    /\ back # <<>> => back = <<"Ok", pre>>

\* the 13 variants other than Failure do round-trip
RoundTripButFailure ==
    pre.variant # "Failure" =>
        /\ json # <<>> => json = <<"Ok", to_string(pre)>>
        /\ back # <<>> => back = <<"Ok", pre>>

----------------------------------------------------------------------------
(* Records *)

\* C19 as stated: a call of create_index adds a record with the initial
\* status and the new id, spawns the listener and the driver of that id and
\* of no other, and returns the record while both are still at their start.
C19_CreateSpawns ==
    [][Len(store') > Len(store) =>
          LET id == Len(store')
          IN  /\ store'[id].index_id = id
              /\ store'[id].status = DefaultStatus
              /\ pc[id] = "none" /\ pc'[id] = "spawned"
              /\ lpc[id] = "none" /\ lpc'[id] = "listening"
              /\ \A j \in Ids \ {id} : pc'[j] = pc[j] /\ lpc'[j] = lpc[j]
              /\ calls' = Append(calls, [ok |-> TRUE, index_id |-> id])]_vars

\* a call of create_index whose FSM was built does what C19 says
CreateSpawnsWhenBuilt ==
    [][(Len(store') > Len(store) /\ bound = 0) =>
          LET id == Len(store')
          IN  /\ store'[id].status = DefaultStatus
              /\ pc'[id] = "spawned"
              /\ lpc'[id] = "listening"
              /\ calls' = Append(calls, [ok |-> TRUE, index_id |-> id])]_vars

\* C20: in every step, no record is removed; a record is added only by a
\* call of create_index, one at a time; the index_id of a record does not
\* change; a record changes only in a step of the listener spawned for its
\* id; and no two records have the same index_id.
C20_RecordLifecycle ==
    [][/\ Len(store') >= Len(store)
       /\ Len(store') > Len(store) =>
             /\ Len(store') = Len(store) + 1
             /\ Len(calls') = Len(calls) + 1
       /\ \A k \in 1..Len(store) :
             /\ store'[k].index_id = store[k].index_id
             /\ store'[k] # store[k] =>
                   Reads(store[k].index_id) /\ ListenerRecv(store[k].index_id)
       /\ \A j, k \in 1..Len(store') :
             j # k => store'[j].index_id # store'[k].index_id]_vars

C20_Witness ==
    /\ Len(store) = 2
    /\ store[1].index_id # store[2].index_id
    /\ ListenerEnded(1)
    /\ ListenerEnded(2)

----------------------------------------------------------------------------
(* The status column *)

\* C23 as stated: the status of every record is the JSON form of a State.
C23_StatusIsStateJson ==
    \A k \in 1..Len(store) : CanDeserialize(store[k].status)

----------------------------------------------------------------------------
(* Several indexes *)

\* the task running exec for index i has been spawned and has not ended
Running(i) == pc[i] \in {"spawned", "send", "close"}

\* C24 as stated: a call of create_index made while the driver of another
\* index is running gives the new index its own FSM and driver.
C24_SecondDriverRuns ==
    [][(Len(store') > Len(store) /\ \E j \in Ids : Running(j)) =>
          LET id == Len(store')
          IN  /\ fsm'[id].id = id
              /\ pc'[id] = "spawned"
              /\ \A j \in Ids \ {id} : pc'[j] = pc[j]]_vars

----------------------------------------------------------------------------
(* Job failures *)

\* the *Error state that matches a job
ErrorOf(job) ==
    CASE job \in {"download_osm_region", "download_bano_region",
                  "download_ntfs_region"} -> "DownloadingError"
      [] job = "generate_cosmogony" -> "ProcessingError"
      [] OTHER -> "IndexingError"

\* C27: when the last job run for an index has failed, the driver has not
\* panicked, the state entered right after the job is the *Error state that
\* matches the job, with the job's error in its detail, followed at most by
\* NotAvailable; and once exec has returned the last two published states
\* are that *Error state and NotAvailable.
C27_JobFailureBecomesErrorState ==
    \A i \in Ids :
        (Len(jobs[i]) >= 1 /\ jobs[i][Len(jobs[i])].outcome # "ok") =>
            LET job == jobs[i][Len(jobs[i])]
                n == Len(entered[i])
                k == IF entered[i][n].variant = "NotAvailable" THEN n - 1 ELSE n
                m == Len(published[i])
            IN  /\ pc[i] # "panicked"
                /\ k >= 2
                /\ entered[i][k].variant = ErrorOf(job.job)
                /\ entered[i][k].details[Len(entered[i][k].details)] = job.outcome
                /\ Returned(i) =>
                      /\ Types(published[i])[m - 1] = ErrorOf(job.job)
                      /\ Types(published[i])[m] = "NotAvailable"

C27_Witness ==
    /\ Returned(1)
    /\ Len(jobs[1]) = 2
    /\ jobs[1][2] = [job |-> "generate_cosmogony", outcome |-> "404"]
    /\ Types(published[1])[4] = "ProcessingError"

----------------------------------------------------------------------------
(* Closing the publisher *)

----------------------------------------------------------------------------
(* The driver and its subscribers *)

\* the next step of the task running exec for index i
DriverStep(i) == ExecStart(i) \/ ExecStep(i) \/ ExecClose(i)

\* C29: a driver that has not returned can always take its next step,
\* whatever the state of the listeners; and a message whose send completes
\* while a listener is not connected never reaches that listener's socket.
C29_DriverIndependent ==
    /\ [](\A i \in Ids : Running(i) => ENABLED DriverStep(i))
    /\ [][\A i, j \in Ids :
            (Len(published'[i]) > Len(published[i]) /\ ~connected[j]) =>
                inbox'[j] = inbox[j]]_vars

C29_Witness ==
    /\ Returned(1)
    /\ Len(published[1]) = 6
    /\ lpc[1] = "listening"
    /\ ~connected[1]
    /\ inbox[1] = <<>>

----------------------------------------------------------------------------
(* The dispatcher and the Failure state *)

\* C25: a call of FSM::run leaves the state and every other field of the FSM
\* but the event queue as they were, only appends to the queue, and changes
\* neither the messages sent or being sent nor the store.
C25_RunOnlyAppendsEvents ==
    [][\A i \in Ids :
          (pc[i] = "run" /\ pc'[i] # "run") =>
              /\ fsm'[i].state = fsm[i].state
              /\ [fsm'[i] EXCEPT !.events = fsm[i].events] = fsm[i]
              /\ IsPrefix(fsm[i].events, fsm'[i].events)
              /\ published' = published
              /\ outbox' = outbox
              /\ inbox' = inbox
              /\ store' = store
              /\ written' = written]_vars

C25_Witness ==
    /\ pc[1] = "loop"
    /\ jobs[1] = <<[job |-> "generate_cosmogony", outcome |-> "ok"]>>
    /\ fsm[1].state.variant = "ProcessingInProgress"
    /\ Len(fsm[1].events) = 1
    /\ fsm[1].events[1].variant = "ProcessingComplete"
    /\ entered[1] = <<>>

----------------------------------------------------------------------------
(* Status updates *)

\* the row, as a reader got it, is the row as it was inserted
AsInserted(r) == r.status = DefaultStatus /\ r.updated_at = r.created_at

\* the row, as a reader got it, has the status and the updated_at of one
\* executed UPDATE of its id
AsUpdated(r) ==
    [index_id |-> r.index_id, status |-> r.status, updated_at |-> r.updated_at]
        \in versions

\* C21: every row a reader gets from get_all_indexes is either the row as
\* inserted or carries the status and the updated_at of one and the same
\* UPDATE, also while a transaction that has updated the row is still open.
C21_NoTornRead ==
    \A k \in 1..Len(listed) : AsInserted(listed[k]) \/ AsUpdated(listed[k])

C21_Witness ==
    /\ Len(listed) >= 1
    /\ listed[1].index_id = 1
    /\ listed[1].status = to_string(DownloadingInProgress(0))
    /\ listed[1].updated_at = 1
    /\ lpc[1] = "updated"
    /\ tx[1].status = to_string(Available)

C30_FailureEndsItsTask ==
    [][\A i \in Ids :
          /\ (lpc[i] \in {"begun", "updated"} /\ lpc'[i] = "err") =>
                /\ store' = store
                /\ written' = written
                /\ pc' = pc
                /\ \A j \in Ids \ {i} : lpc'[j] = lpc[j]
          /\ (pc[i] = "send" /\ pc'[i] = "panicked") =>
                /\ published' = published
                /\ store' = store
                /\ lpc' = lpc
                /\ \A j \in Ids \ {i} : pc'[j] = pc[j]]_vars

C30_Witness ==
    /\ pc[1] = "panicked"
    /\ lpc[1] = "err"
    /\ written[1] = <<>>
    /\ \E v \in versions : v.index_id = 1
    /\ store[1].status = DefaultStatus

----------------------------------------------------------------------------
(* The notifications stream *)

----------------------------------------------------------------------------
(* The dispatch graph *)

\* C32: a call of FSM::run in state Downloaded appends exactly one event and
\* runs no job: Process with the state's file_path if the data source is
\* cosmogony, Index with the state's file_path for every other data source.
C32_DownloadedDispatch ==
    [][\A i \in Ids :
          (/\ pc[i] = "run"
           /\ pc'[i] # "run"
           /\ fsm[i].state.variant = "Downloaded") =>
              /\ jobs' = jobs
              /\ fsm'[i].events =
                    Append(fsm[i].events,
                           IF fsm[i].data_source = "cosmogony"
                           THEN EvProcess(fsm[i].state.file_path)
                           ELSE EvIndex(fsm[i].state.file_path))]_vars

C32_Witness ==
    /\ pc[1] = "loop"
    /\ fsm[1].data_source = "ntfs"
    /\ fsm[1].state.variant = "Downloaded"
    /\ fsm[1].events = <<EvIndex(fsm[1].state.file_path)>>
    /\ jobs[1] = <<>>

\* the driver of index i has taken its first event
Started(i) == pc[i] \notin {"none", "spawned"}

\* C33: in a driver run the Download event is taken exactly once, as the
\* first event; once the FSM is back in NotAvailable the queue is empty, the
\* dispatcher pushes nothing, no further state is entered, and when exec has
\* returned NotAvailable is the last message published.
C33_NoSecondDownload ==
    \A i \in Ids :
        Started(i) =>
            /\ entered[i][1].variant = "DownloadingInProgress"
            /\ \A k \in 2..Len(entered[i]) :
                  entered[i][k].variant # "DownloadingInProgress"
            /\ \A k \in 1..Len(entered[i]) :
                  entered[i][k].variant = "NotAvailable" =>
                      /\ k = Len(entered[i])
                      /\ fsm[i].events = <<>>
                      /\ \A o \in JobOutcomes : run(fsm[i], o, now) = <<>>
                      /\ Returned(i) =>
                            Types(published[i])[Len(published[i])] = "NotAvailable"

C33_Witness ==
    /\ Returned(1)
    /\ Len(entered[1]) = 5
    /\ entered[1][5].variant = "NotAvailable"
    /\ entered[1][4].variant = "IndexingError"
    /\ Len(jobs[1]) = 2

\* C34: every driver that has been spawned returns from exec, whatever the
\* data source, the index type and the outcomes of the jobs, provided the
\* task is polled and each job returns.
C34_DriverTerminates ==
    \A i \in Ids : (pc[i] = "spawned") ~> Returned(i)

C34_Witness ==
    /\ Returned(1)
    /\ fsm[1].data_source = "cosmogony"
    /\ fsm[1].state.variant = "Available"
    /\ Len(jobs[1]) = 3

\* C35: the queue of a driver never holds more than one event: FSM::run is
\* called (when a send completes) only with an empty queue and pushes at
\* most one event, whatever the outcome of its job; the one event of a
\* spawned driver is the Download that exec pushes.
C35_QueueAtMostOne ==
    \A i \in Ids :
        /\ Len(fsm[i].events) <= 1
        /\ pc[i] = "send" =>
              /\ fsm[i].events = <<>>
              /\ \A o \in JobOutcomes :
                    Len(after_run(fsm[i], o, now).events) <= 1

C35_Witness ==
    /\ pc[1] = "send"
    /\ fsm[1].state.variant = "Indexed"
    /\ after_run(fsm[1], "ok", now).events = <<EvValidate>>

\* C36: in a driver run no transition enters Failure and the task does not
\* panic: the Download that exec pushes is legal in the initial state, and
\* every event FSM::run pushes in a state the run reaches is legal in that
\* state, whatever the outcome of the job.
C36_FailureUnreachable ==
    \A i \in Ids :
        /\ pc[i] # "panicked"
        /\ \A k \in 1..Len(entered[i]) : entered[i][k].variant # "Failure"
        /\ pc[i] = "spawned" => Legal(fsm[i].state, EvDownload)
        /\ pc[i] = "send" =>
              \A o \in JobOutcomes :
                  LET pushed == run(fsm[i], o, now)
                  IN  \A k \in 1..Len(pushed) : Legal(fsm[i].state, pushed[k])

C36_Witness ==
    /\ pc[1] = "send"
    /\ fsm[1].state.variant = "ProcessingInProgress"
    /\ run(fsm[1], "404", now) = <<EvProcessingError(<<"Could not process: ", "404">>)>>
    /\ Legal(fsm[1].state, run(fsm[1], "404", now)[1])

\* C37: in a driver run no two published messages carry the same state
\* variant, at most 8 messages are published, and no job is run twice.
C37_NoStateTwice ==
    \A i \in Ids :
        /\ Len(published[i]) <= 8
        /\ \A j, k \in 1..Len(published[i]) :
              Types(published[i])[j] = Types(published[i])[k] => j = k
        /\ \A j, k \in 1..Len(jobs[i]) :
              jobs[i][j].job = jobs[i][k].job => j = k

C37_Witness ==
    /\ Len(published[1]) = 8
    /\ Types(published[1])[8] = "Available"
    /\ Types(published[1])[3] = "ProcessingInProgress"

\* the run of index i has entered Indexed
ReachedIndexed(i) == \E k \in 1..Len(entered[i]) : entered[i][k].variant = "Indexed"

\* C38: no driver run enters ValidationError: in ValidationInProgress
\* FSM::run pushes ValidationComplete and nothing else; and every run that
\* has entered Indexed returns with Available as its state and as its last
\* published message.
C38_ValidationAlwaysPasses ==
    /\ [](\A i \in Ids :
            /\ \A k \in 1..Len(entered[i]) :
                  entered[i][k].variant # "ValidationError"
            /\ (pc[i] = "send" /\ fsm[i].state.variant = "ValidationInProgress") =>
                  \A o \in JobOutcomes :
                      run(fsm[i], o, now) = <<EvValidationComplete>>
            /\ (Returned(i) /\ ReachedIndexed(i)) =>
                  /\ fsm[i].state = Available
                  /\ Types(published[i])[Len(published[i])] = "Available")
    /\ \A i \in Ids : ReachedIndexed(i) ~> (Returned(i) /\ fsm[i].state = Available)

C38_Witness ==
    /\ Returned(1)
    /\ ReachedIndexed(1)
    /\ fsm[1].data_source = "bano"
    /\ fsm[1].state = Available

----------------------------------------------------------------------------
(* The start of a run and the failed creation *)

\* C39 as stated: when the first send of a driver completes, the subscribe
\* socket of the listener of its index is connected and subscribed, so the
\* message is delivered to it.
C39_SubscribedBeforeFirstPublish ==
    [][\A i \in Ids :
          (published[i] = <<>> /\ published'[i] # <<>>) =>
              /\ connected[i]
              /\ inbox'[i] = Append(inbox[i], published'[i][1])]_vars

\* C40: after a call of create_index that failed in FSM::new, the record it
\* committed is in the store, no FSM, driver or listener exists for it, and
\* its status stays the one it was inserted with, whatever the tasks of the
\* other indexes do.
C40_FailedCreateLeavesRecord ==
    \A k \in 1..Len(calls) :
        ~calls[k].ok =>
            LET id == calls[k].index_id
            IN  /\ id <= Len(store)
                /\ store[id].index_id = id
                /\ store[id].status = DefaultStatus
                /\ fsm[id] = NoFSM
                /\ pc[id] = "none"
                /\ lpc[id] = "none"

C40_Witness ==
    /\ Len(calls) = 2
    /\ calls[1].ok
    /\ ~calls[2].ok
    /\ written[1] # <<>>
    /\ store[1].status # DefaultStatus
    /\ pc[1] = "done"

====
